---- MODULE Spec2Model ----
(***************************************************************************)
(* A model of the /metrics handler of the ZFS Prometheus exporter          *)
(* (src/src/main.rs): the per-pool pass that parses `zpool iostat` output, *)
(* rebuilds the pool/vdev/disk hierarchy from row order, correlates disks  *)
(* with the libzetta topology and builds one metric registry per entity.   *)
(*                                                                         *)
(* Text is a sequence of one-character strings, so that splitting on tabs  *)
(* and newlines, u64 parsing and substring matching are computed as the    *)
(* code computes them.  Numeric inputs stay far below 2^64, so the u64     *)
(* overflow error of str::parse is outside the inputs drawn here; the      *)
(* non-digit error is inside them.                                         *)
(***************************************************************************)
EXTENDS Integers, Sequences, FiniteSets, TLC

VARIABLES
    pools,          \* all_pools: the topology returned by zpool.all() (line 120)
    iostat,         \* per pool: what `zpool iostat -Hpvy <pool> 1 1` does when run
    zlist,          \* per pool: what `zpool list -Hp <pool>` does when run
    pc,             \* position of the handler
    poolIdx,        \* index of the pool of the `for pool in all_pools` loop
    registries,     \* the Vec<Registry> of line 122
    pool_reg,       \* the pool's registry while it is being filled (line 150)
    devices,        \* Device::parse_from_stdout(output) of the current pool
    devIdx,         \* index of the row of the `for device in devices` loop
    last_vdev,      \* Option<&Device> of line 215
    last_vdev_data, \* Option<&Vdev> of line 216
    resp,           \* the response body, one encoded group per registry
    healthIn        \* input of a lone register_health call (SpecHealth only)

vars == <<pools, iostat, zlist, pc, poolIdx, registries, pool_reg, devices,
          devIdx, last_vdev, last_vdev_data, resp, healthIn>>

----------------------------------------------------------------------------
(* Bounds of the model. *)

\* rows of an iostat output in the reconstruction specification
MaxRows == 3
\* lines of an iostat output in the parsing specification
MaxParseRows == 3
\* pools of a scrape in the multi-pool specification
MaxPools == 3

----------------------------------------------------------------------------
(* Option<T> *)

None == [some |-> FALSE]
Some(x) == [some |-> TRUE, val |-> x]

----------------------------------------------------------------------------
(* Text *)

TAB == "\t"
NL == "\n"

DigitChars == <<"0", "1", "2", "3", "4", "5", "6", "7", "8", "9">>

IsDigit(c) == \E i \in DOMAIN DigitChars : DigitChars[i] = c

DigitVal(c) == (CHOOSE i \in DOMAIN DigitChars : DigitChars[i] = c) - 1

\* [T]::join(sep)
RECURSIVE JoinWith(_, _)
JoinWith(parts, sep) ==
    IF Len(parts) = 0 THEN <<>>
    ELSE IF Len(parts) = 1 THEN parts[1]
    ELSE parts[1] \o <<sep>> \o JoinWith(Tail(parts), sep)

\* str::split(sep): the pieces between the separators; "" splits to [""]
RECURSIVE Split(_, _)
Split(s, sep) ==
    IF \A i \in DOMAIN s : s[i] # sep THEN <<s>>
    ELSE LET i == CHOOSE k \in DOMAIN s :
                     s[k] = sep /\ \A j \in 1..(k - 1) : s[j] # sep
         IN  <<SubSeq(s, 1, i - 1)>> \o Split(SubSeq(s, i + 1, Len(s)), sep)

\* str::contains(needle)
Contains(hay, needle) ==
    \E i \in 0..(Len(hay) - Len(needle)) :
        SubSeq(hay, i + 1, i + Len(needle)) = needle

RECURSIVE DigitsValue(_, _)
DigitsValue(s, acc) ==
    IF Len(s) = 0 THEN acc ELSE DigitsValue(Tail(s), 10 * acc + DigitVal(s[1]))

\* str::parse::<u64>(): an optional leading '+', then one or more digits
ParseU64(s) ==
    LET digits == IF Len(s) > 0 /\ s[1] = "+" THEN Tail(s) ELSE s
    IN  IF Len(digits) > 0 /\ \A i \in DOMAIN digits : IsDigit(digits[i])
        THEN [ok |-> TRUE, val |-> DigitsValue(digits, 0)]
        ELSE [ok |-> FALSE]

----------------------------------------------------------------------------
(* IoStats and Device *)

IoStats_new(capacity, available, read_op, write_op, read_band, write_band) ==
    [capacity |-> capacity, available |-> available,
     read_op |-> read_op, write_op |-> write_op,
     read_band |-> read_band, write_band |-> write_band]

Device_new(name, io_stats) == [name |-> name, io_stats |-> io_stats]

is_pool_or_vdev(dev) == dev.io_stats.available.some /\ dev.io_stats.capacity.some

\* StatsRetained, keeping the rows of 7 fields whether or not a field is empty
StatsRetained_anyField(stdout) ==
    LET lines == Split(stdout, NL)
        stats == [i \in DOMAIN lines |-> Split(lines[i], TAB)]
    IN  SelectSeq(stats, LAMBDA l : Len(l) = 7)

\* the rows that parse_from_stdout keeps: 7 fields, none empty
StatsRetained(stdout) ==
    LET input == stdout   \* `&input[..input.len()]` removes nothing
        lines == Split(input, NL)
        stats == [i \in DOMAIN lines |-> Split(lines[i], TAB)]
    IN  SelectSeq(stats, LAMBDA l : Len(l) = 7 /\ \A i \in DOMAIN l : Len(l[i]) > 0)

\* one row of the loop of parse_from_stdout; every .parse().unwrap() succeeded
ParseRow(row) ==
    LET alloc == ParseU64(row[2]).val
        free == ParseU64(row[3]).val
    IN  Device_new(row[1],
            IoStats_new(IF alloc = 0 THEN None ELSE Some(alloc),
                        IF alloc = 0 THEN None ELSE Some(free),
                        ParseU64(row[4]).val, ParseU64(row[5]).val,
                        ParseU64(row[6]).val, ParseU64(row[7]).val))

\* some .parse().unwrap() of parse_from_stdout panics
ParsePanics(stdout) ==
    \E r \in DOMAIN StatsRetained(stdout) :
        \E f \in 2..7 : ~ParseU64(StatsRetained(stdout)[r][f]).ok

parse_from_stdout(stdout) ==
    LET stats == StatsRetained(stdout)
    IN  [r \in DOMAIN stats |-> ParseRow(stats[r])]

----------------------------------------------------------------------------
(* Registries: constant labels and the counters registered so far *)

NoMetrics == [n \in {} |-> 0]

Registry_new(labels) == [labels |-> labels, metrics |-> NoMetrics]

\* HashMap::insert
Insert(labels, key, value) == (key :> value) @@ labels

\* HashMap::remove
Remove(labels, key) == [k \in (DOMAIN labels) \ {key} |-> labels[k]]

register_intcounter(reg, name, val) ==
    [reg EXCEPT !.metrics = (name :> val) @@ reg.metrics]

\* libzetta's Health enum
Health ==
    {"Online", "Degraded", "Faulted", "Offline", "Available", "Unavailable", "Removed"}

\* one block of register_health: the state label inserted, the registry made
\* from a clone of the labels, the counter registered with the matched value
HealthReg(labels, state, val) ==
    register_intcounter(Registry_new(Insert(labels, "state", state)), "health", val)

\* register_health, with the values of the available and the unavailable
\* blocks matched against each other's variant
register_health_swapped(labels, health) ==
    LET l == Insert(labels, "field_type", "enum")
    IN  <<HealthReg(l, "online", IF health = "Online" THEN 1 ELSE 0),
          HealthReg(l, "degraded", IF health = "Degraded" THEN 1 ELSE 0),
          HealthReg(l, "faulted", IF health = "Faulted" THEN 1 ELSE 0),
          HealthReg(l, "offline", IF health = "Offline" THEN 1 ELSE 0),
          HealthReg(l, "available", IF health = "Unavailable" THEN 1 ELSE 0),
          HealthReg(l, "unavailable", IF health = "Available" THEN 1 ELSE 0),
          HealthReg(l, "removed", IF health = "Removed" THEN 1 ELSE 0)>>

register_health(labels, health) ==
    LET l == Insert(labels, "field_type", "enum")
    IN  <<HealthReg(l, "online", IF health = "Online" THEN 1 ELSE 0),
          HealthReg(l, "degraded", IF health = "Degraded" THEN 1 ELSE 0),
          HealthReg(l, "faulted", IF health = "Faulted" THEN 1 ELSE 0),
          HealthReg(l, "offline", IF health = "Offline" THEN 1 ELSE 0),
          HealthReg(l, "available", IF health = "Available" THEN 1 ELSE 0),
          HealthReg(l, "unavailable", IF health = "Unavailable" THEN 1 ELSE 0),
          HealthReg(l, "removed", IF health = "Removed" THEN 1 ELSE 0)>>

register_error_stats(reg, error_stats) ==
    register_intcounter(
        register_intcounter(
            register_intcounter(reg, "read_errors", error_stats.read),
            "write_errors", error_stats.write),
        "checksum_errors", error_stats.checksum)

collect_metrics(io, reg) ==
    LET r0 == IF io.capacity.some /\ io.available.some
              THEN register_intcounter(
                       register_intcounter(reg, "capacity", io.capacity.val),
                       "available", io.available.val)
              ELSE reg
    IN  register_intcounter(
            register_intcounter(
                register_intcounter(
                    register_intcounter(r0, "read_operations", io.read_op),
                    "write_operations", io.write_op),
                "read_bandwidth", io.read_band),
            "write_bandwidth", io.write_band)

register_vdev_stats(vdev, vdev_device, vdev_name, start_labels) ==
    LET labels == Insert(Remove(Insert(start_labels, "device_type", "vdev"), "vdev"),
                         "device_name", vdev_name)
        vdev_reg == Registry_new(labels)
    IN  register_intcounter(
            register_error_stats(collect_metrics(vdev_device.io_stats, vdev_reg),
                                 vdev.error_statistics),
            "disk_count", Len(vdev.disks))

----------------------------------------------------------------------------
(* The topology object (libzetta) *)

ErrorStatistics(read, write, checksum) ==
    [read |-> read, write |-> write, checksum |-> checksum]

Disk(path, health, error_statistics) ==
    [path |-> path, health |-> health, error_statistics |-> error_statistics]

Vdev(error_statistics, disks) ==
    [error_statistics |-> error_statistics, disks |-> disks]

Pool(name, health, error_statistics, vdevs, spares) ==
    [name |-> name, health |-> health, error_statistics |-> error_statistics,
     vdevs |-> vdevs, spares |-> spares]

----------------------------------------------------------------------------
(* The inputs drawn *)

RECURSIVE Dec(_)
Dec(n) == IF n < 10 THEN <<DigitChars[n + 1]>>
          ELSE Dec(n \div 10) \o <<DigitChars[(n % 10) + 1]>>

PoolName(p) == <<"t", "a", "n", "k">> \o Dec(p)
Mirror(k) == <<"m", "i", "r", "r", "o", "r", "-">> \o Dec(k)
sda == <<"s", "d", "a">>
sdb == <<"s", "d", "b">>
sd == <<"s", "d">>
Dev(name) == <<"/", "d", "e", "v", "/">> \o name

Row(name, alloc, free, rop, wop, rband, wband) ==
    <<name, Dec(alloc), Dec(free), Dec(rop), Dec(wop), Dec(rband), Dec(wband)>>

PoolRow(p) == Row(PoolName(p), 1000, 4000, 10, 5, 1000, 500)
VdevRow(k) == Row(Mirror(k), 600 + k, 2000 + k, 20 + k, 30 + k, 700 + k, 800 + k)
SdaRow == Row(sda, 0, 0, 5, 2, 500, 200)
SdbRow == Row(sdb, 0, 0, 6, 3, 510, 300)
SdRow == Row(sd, 0, 0, 7, 4, 520, 400)
\* 7 fields, none empty, one field not a number
NonNumericRow == <<sda, Dec(0), Dec(0), <<"x">>, Dec(2), Dec(500), Dec(200)>>
\* 6 fields, one of them not a number
SixFieldRow == <<sdb, Dec(0), <<"x">>, Dec(3), Dec(510), Dec(300)>>
\* 7 fields, one empty
EmptyFieldRow == <<sd, Dec(0), Dec(0), <<>>, Dec(4), Dec(520), Dec(400)>>
\* the blank line, as after a trailing newline
BlankRow == <<<<>>>>

\* three topologies of one pool: the vdevs differ in number, in the number of
\* their disks and in the order of the disks
Topology(k, p) ==
    CASE k = 1 ->
           Pool(PoolName(p), "Online", ErrorStatistics(1, 2, 3),
                <<Vdev(ErrorStatistics(4, 5, 6),
                       <<Disk(Dev(sda), "Online", ErrorStatistics(7, 8, 9))>>),
                  Vdev(ErrorStatistics(10, 11, 12),
                       <<Disk(Dev(sdb), "Degraded", ErrorStatistics(13, 14, 15))>>)>>,
                <<>>)
      [] k = 2 ->
           Pool(PoolName(p), "Degraded", ErrorStatistics(0, 0, 1),
                <<Vdev(ErrorStatistics(16, 17, 18),
                       <<Disk(Dev(sdb), "Faulted", ErrorStatistics(19, 20, 21)),
                         Disk(Dev(sda), "Online", ErrorStatistics(22, 23, 24)),
                         Disk(Dev(sda), "Removed", ErrorStatistics(25, 26, 27))>>)>>,
                <<Disk(Dev(sd), "Available", ErrorStatistics(0, 0, 0))>>)
      [] OTHER ->
           Pool(PoolName(p), "Faulted", ErrorStatistics(2, 0, 0),
                <<Vdev(ErrorStatistics(28, 29, 30), <<>>),
                  Vdev(ErrorStatistics(31, 32, 33),
                       <<Disk(Dev(Mirror(0)), "Offline", ErrorStatistics(34, 35, 36)),
                         Disk(Dev(sda), "Unavailable", ErrorStatistics(37, 38, 39))>>)>>,
                <<>>)

Topologies == {1, 2, 3}

AllSeqs(S, n) == UNION {[1..k -> S] : k \in 0..n}

IostatOk(rows) == [status |-> "ok", rows |-> rows]
IostatFailures == {[status |-> s, rows |-> <<>>] :
                      s \in {"spawn_error", "exit_failure", "not_utf8"}}

\* the text the command printed
Stdout(out) == JoinWith([i \in DOMAIN out.rows |-> JoinWith(out.rows[i], TAB)], NL)

ZlistCols(p, size) ==
    <<PoolName(p), size, Dec(1000), Dec(4000), <<"-">>, <<"-">>, Dec(0), Dec(20),
      Dec(1), <<"O", "N", "L", "I", "N", "E">>, <<"-", NL>>>>
ZlistOk(p) == [status |-> "ok", cols |-> ZlistCols(p, Dec(5000))]
ZlistOutputs(p) ==
    {ZlistOk(p),
     [status |-> "ok", cols |-> ZlistCols(p, <<"-">>)],
     [status |-> "ok", cols |-> <<PoolName(p), Dec(5000), <<"-", NL>>>>],
     [status |-> "spawn_error", cols |-> <<>>],
     [status |-> "not_utf8", cols |-> <<>>]}

NoReg == Registry_new(NoMetrics)

\* the part of the initial state that is the same in every specification
InitHandler ==
    /\ pc = "pool"
    /\ poolIdx = 1
    /\ registries = <<>>
    /\ pool_reg = NoReg
    /\ devices = <<>>
    /\ devIdx = 1
    /\ last_vdev = None
    /\ last_vdev_data = None
    /\ resp = <<>>
    /\ healthIn = None

\* one pool; the outputs of zpool list, under a fixed iostat output
InitZlist ==
    /\ pools = <<Topology(1, 1)>>
    /\ iostat = <<IostatOk(<<PoolRow(1), VdevRow(0), SdaRow, BlankRow>>)>>
    /\ zlist \in {<<z>> : z \in ZlistOutputs(1)}

\* well-formed rows of one pool, in every order, ending with a newline
ReconRows == {PoolRow(1), VdevRow(0), VdevRow(1), SdaRow, SdbRow, SdRow}
ReconOutputs ==
    {IostatOk(rows \o <<BlankRow>>) : rows \in AllSeqs(ReconRows, MaxRows)}
        \cup IostatFailures \cup {IostatOk(<<VdevRow(0), NonNumericRow, BlankRow>>)}

Init ==
    /\ InitHandler
    /\ \/ /\ pools \in {<<Topology(k, 1)>> : k \in Topologies}
          /\ iostat \in {<<o>> : o \in ReconOutputs}
          /\ zlist = <<ZlistOk(1)>>
       \/ InitZlist

----------------------------------------------------------------------------
(* The handler, metrics_endpoint *)

CurPool == pools[poolIdx]

\* labels of lines 144-147
PoolLabels(pool) ==
    [device_type |-> "pool", pool |-> pool.name, device_name |-> pool.name]

RECURSIVE SumDisks(_, _)
SumDisks(vdevs, i) ==
    IF i > Len(vdevs) THEN 0 ELSE Len(vdevs[i].disks) + SumDisks(vdevs, i + 1)

\* TotalDiskCount, counting the vdevs in place of their disks
TotalDiskCount_vdevs(pool) == Len(pool.vdevs)

\* the total_disk_count counter of lines 156-159
TotalDiskCount(pool) == SumDisks(pool.vdevs, 1)

\* pool_reg as lines 150-164 leave it
PoolRegInit(pool) ==
    register_error_stats(
        register_intcounter(
            register_intcounter(
                register_intcounter(Registry_new(PoolLabels(pool)),
                                    "vdev_count", Len(pool.vdevs)),
                "spare_count", Len(pool.spares)),
            "disk_count", TotalDiskCount(pool)),
        pool.error_statistics)

\* Panic, with what was built so far sent as the response
Panic_flush ==
    /\ pc' = "panicked"
    /\ resp' = [i \in DOMAIN registries |->
                   {[name |-> "zfs_" \o n, labels |-> registries[i].labels,
                     value |-> registries[i].metrics[n]] :
                       n \in DOMAIN registries[i].metrics}]
    /\ UNCHANGED <<pools, iostat, zlist, poolIdx, registries, pool_reg, devices,
                   devIdx, last_vdev, last_vdev_data, healthIn>>

\* a panic of the handler (unwrap, expect, panic!): it unwinds, nothing is
\* returned; the state keeps what had been built
Panic ==
    /\ pc' = "panicked"
    /\ UNCHANGED <<pools, iostat, zlist, poolIdx, registries, pool_reg, devices,
                   devIdx, last_vdev, last_vdev_data, resp, healthIn>>

\* lines 124-164: labels, pool registry, the pool's health groups
BeginPool ==
    /\ pc = "pool"
    /\ poolIdx <= Len(pools)
    /\ pool_reg' = PoolRegInit(CurPool)
    /\ registries' = registries \o register_health(PoolLabels(CurPool), CurPool.health)
    /\ pc' = "iostat"
    /\ UNCHANGED <<pools, iostat, zlist, poolIdx, devices, devIdx, last_vdev,
                   last_vdev_data, resp, healthIn>>

\* lines 167-187: the command cannot run, exits non-zero, or prints no UTF-8
IostatFails ==
    /\ pc = "iostat"
    /\ iostat[poolIdx].status # "ok"
    /\ Panic

\* IostatParsePanics, with the pool skipped and the loop going on
IostatParsePanics_skip ==
    /\ pc = "iostat"
    /\ iostat[poolIdx].status = "ok"
    /\ ParsePanics(Stdout(iostat[poolIdx]))
    /\ poolIdx' = poolIdx + 1
    /\ pc' = "pool"
    /\ UNCHANGED <<pools, iostat, zlist, registries, pool_reg, devices, devIdx,
                   last_vdev, last_vdev_data, resp, healthIn>>

\* lines 189, 346-354: a numeric field of a retained row does not parse
IostatParsePanics ==
    /\ pc = "iostat"
    /\ iostat[poolIdx].status = "ok"
    /\ ParsePanics(Stdout(iostat[poolIdx]))
    /\ Panic

\* lines 212-216: the pool registry is pushed, the row loop starts
PushPoolReg(reg) ==
    /\ registries' = Append(registries, reg)
    /\ pool_reg' = NoReg
    /\ last_vdev' = None
    /\ last_vdev_data' = None
    /\ devIdx' = 1
    /\ pc' = "devices"

\* devices.iter().find(|dev| dev.name == pool.name())
FindPoolDev(devs, pool) ==
    LET hits == {i \in DOMAIN devs : devs[i].name = pool.name}
    IN  IF hits = {} THEN None
        ELSE Some(devs[CHOOSE i \in hits : \A j \in hits : i <= j])

\* lines 189-193 (and 212-216 when no row carries the pool's name)
IostatParsed ==
    /\ pc = "iostat"
    /\ iostat[poolIdx].status = "ok"
    /\ ~ParsePanics(Stdout(iostat[poolIdx]))
    /\ LET devs == parse_from_stdout(Stdout(iostat[poolIdx]))
           pool_dev == FindPoolDev(devs, CurPool)
       IN  /\ devices' = devs
           /\ IF pool_dev.some
              THEN /\ pool_reg' = collect_metrics(pool_dev.val.io_stats, pool_reg)
                   /\ pc' = "zpool_list"
                   /\ UNCHANGED <<registries, last_vdev, last_vdev_data, devIdx>>
              ELSE PushPoolReg(pool_reg)
    /\ UNCHANGED <<pools, iostat, zlist, poolIdx, resp, healthIn>>

\* the columns of the output of zpool list
ZlistColumns(out) == Split(JoinWith(out.cols, TAB), TAB)

ZlistPanicsOn(out) ==
    \/ out.status # "ok"
    \/ Len(ZlistColumns(out)) = 11 /\ ~ParseU64(ZlistColumns(out)[2]).ok

\* lines 196-206: zpool list cannot run, prints no UTF-8, or its size is no number
ZpoolListPanics ==
    /\ pc = "zpool_list"
    /\ ZlistPanicsOn(zlist[poolIdx])
    /\ Panic

\* lines 203-216: raw_size when there are 11 columns, then the push
ZpoolListDone ==
    /\ pc = "zpool_list"
    /\ ~ZlistPanicsOn(zlist[poolIdx])
    /\ LET cols == ZlistColumns(zlist[poolIdx])
       IN  PushPoolReg(IF Len(cols) = 11
                       THEN register_intcounter(pool_reg, "raw_size", ParseU64(cols[2]).val)
                       ELSE pool_reg)
    /\ UNCHANGED <<pools, iostat, zlist, poolIdx, devices, resp, healthIn>>

InLoop == pc = "devices" /\ devIdx <= Len(devices)

\* SkipPoolRow, with the pool row closing the open vdev
SkipPoolRow_reset ==
    /\ InLoop
    /\ devices[devIdx].name = CurPool.name
    /\ devIdx' = devIdx + 1
    /\ last_vdev' = None
    /\ UNCHANGED <<pools, iostat, zlist, pc, poolIdx, registries, pool_reg, devices,
                   last_vdev_data, resp, healthIn>>

\* lines 219-220
SkipPoolRow ==
    /\ InLoop
    /\ devices[devIdx].name = CurPool.name
    /\ devIdx' = devIdx + 1
    /\ UNCHANGED <<pools, iostat, zlist, pc, poolIdx, registries, pool_reg, devices,
                   last_vdev, last_vdev_data, resp, healthIn>>

\* lines 223-227: the registry pushed when a header row arrives
HeaderEmission(vdev_data, vdev, device, labels) ==
    IF vdev_data.some
    THEN <<register_vdev_stats(vdev_data.val, device, device.name, labels)>>
    ELSE <<>>

\* lines 221-230
VdevHeaderRow ==
    /\ InLoop
    /\ devices[devIdx].name # CurPool.name
    /\ is_pool_or_vdev(devices[devIdx])
    /\ registries' = registries \o HeaderEmission(last_vdev_data, last_vdev,
                                                  devices[devIdx], PoolLabels(CurPool))
    /\ last_vdev' = Some(devices[devIdx])
    /\ last_vdev_data' = None
    /\ devIdx' = devIdx + 1
    /\ UNCHANGED <<pools, iostat, zlist, pc, poolIdx, pool_reg, devices, resp, healthIn>>

\* lines 232-239
DiskLabels(pool_labels, device, vdev) ==
    LET l == Insert(Insert(pool_labels, "device_name", device.name),
                    "device_type", "disk")
    IN  IF vdev.some THEN Insert(l, "vdev", vdev.val.name) ELSE l

\* FindDisk, keeping the last disk that matches in place of the first
FindDisk_last(pool_vdev, name) ==
    LET hits == {i \in DOMAIN pool_vdev.disks : Contains(pool_vdev.disks[i].path, name)}
    IN  IF hits = {} THEN None
        ELSE Some(pool_vdev.disks[CHOOSE i \in hits : \A j \in hits : j <= i])

\* pool_vdev.disks().iter().find(|disk| path.contains(&device.name)), line 247
FindDisk(pool_vdev, name) ==
    LET hits == {i \in DOMAIN pool_vdev.disks : Contains(pool_vdev.disks[i].path, name)}
    IN  IF hits = {} THEN None
        ELSE Some(pool_vdev.disks[CHOOSE i \in hits : \A j \in hits : i <= j])

\* the loop of lines 246-254: the first vdev with a matching disk, from vdev i on
RECURSIVE FindVdev(_, _, _)
FindVdev(vdevs, name, i) ==
    IF i > Len(vdevs) THEN None
    ELSE IF FindDisk(vdevs[i], name).some THEN Some(vdevs[i])
    ELSE FindVdev(vdevs, name, i + 1)

\* lines 231-257
DiskRow ==
    /\ InLoop
    /\ devices[devIdx].name # CurPool.name
    /\ ~is_pool_or_vdev(devices[devIdx])
    /\ LET device == devices[devIdx]
           labels == DiskLabels(PoolLabels(CurPool), device, last_vdev)
           device_reg == collect_metrics(device.io_stats, Registry_new(labels))
           pool_vdev == FindVdev(CurPool.vdevs, device.name, 1)
       IN  IF pool_vdev.some
           THEN LET pool_disk == FindDisk(pool_vdev.val, device.name).val
                IN  /\ registries' =
                           (registries \o register_health(labels, pool_disk.health))
                               \o <<register_error_stats(device_reg,
                                                         pool_disk.error_statistics)>>
                    /\ last_vdev_data' = pool_vdev
           ELSE /\ registries' = Append(registries, device_reg)
                /\ UNCHANGED last_vdev_data
    /\ devIdx' = devIdx + 1
    /\ UNCHANGED <<pools, iostat, zlist, pc, poolIdx, pool_reg, devices, last_vdev,
                   resp, healthIn>>

\* lines 260-263: the registry pushed after the loop
FinalEmission(vdev, vdev_data, labels) ==
    IF vdev.some /\ vdev_data.some
    THEN <<register_vdev_stats(vdev_data.val, vdev.val, vdev.val.name, labels)>>
    ELSE <<>>

\* lines 260-264: the last vdev, then the next pool
EndPool ==
    /\ pc = "devices"
    /\ devIdx > Len(devices)
    /\ registries' = registries \o FinalEmission(last_vdev, last_vdev_data,
                                                 PoolLabels(CurPool))
    /\ poolIdx' = poolIdx + 1
    /\ pc' = "pool"
    /\ UNCHANGED <<pools, iostat, zlist, pool_reg, devices, devIdx, last_vdev,
                   last_vdev_data, resp, healthIn>>

\* one group of the response: the registry's counters, each under the zfs prefix
\* and the registry's constant labels
encode_metrics(reg) ==
    {[name |-> "zfs_" \o n, labels |-> reg.labels, value |-> reg.metrics[n]] :
        n \in DOMAIN reg.metrics}

\* lines 266-273
Respond ==
    /\ pc = "pool"
    /\ poolIdx > Len(pools)
    /\ resp' = [i \in DOMAIN registries |-> encode_metrics(registries[i])]
    /\ pc' = "done"
    /\ UNCHANGED <<pools, iostat, zlist, poolIdx, registries, pool_reg, devices,
                   devIdx, last_vdev, last_vdev_data, healthIn>>

Next ==
    \/ BeginPool
    \/ IostatFails
    \/ IostatParsePanics
    \/ IostatParsed
    \/ ZpoolListPanics
    \/ ZpoolListDone
    \/ SkipPoolRow
    \/ VdevHeaderRow
    \/ DiskRow
    \/ EndPool
    \/ Respond

Spec == Init /\ [][Next]_vars

----------------------------------------------------------------------------
(* The parsing specification: one pool, lines of every shape in every order *)

ParseRows == {PoolRow(1), VdevRow(0), SdaRow, NonNumericRow, SixFieldRow,
              EmptyFieldRow, BlankRow}

InitParse ==
    /\ InitHandler
    /\ \/ /\ pools = <<Topology(1, 1)>>
          /\ iostat \in {<<IostatOk(rows)>> : rows \in AllSeqs(ParseRows, MaxParseRows)}
                          \cup {<<o>> : o \in IostatFailures}
          /\ zlist = <<ZlistOk(1)>>
       \/ InitZlist

SpecParse == InitParse /\ [][Next]_vars

----------------------------------------------------------------------------
(* The multi-pool specification: per pool, one of a few whole command results *)

PoolScenarios(p) ==
    {[iostat |-> IostatOk(<<PoolRow(p), VdevRow(0), SdaRow, SdbRow, BlankRow>>),
      zlist |-> ZlistOk(p)],
     [iostat |-> IostatOk(<<VdevRow(1), SdRow, BlankRow>>), zlist |-> ZlistOk(p)],
     [iostat |-> IostatOk(<<PoolRow(p), VdevRow(0), NonNumericRow, BlankRow>>),
      zlist |-> ZlistOk(p)],
     [iostat |-> [status |-> "exit_failure", rows |-> <<>>], zlist |-> ZlistOk(p)],
     [iostat |-> IostatOk(<<PoolRow(p), SdaRow, BlankRow>>),
      zlist |-> [status |-> "spawn_error", cols |-> <<>>]]}

InitPools ==
    /\ InitHandler
    /\ \E n \in 1..MaxPools :
          \E sc \in [1..n -> UNION {PoolScenarios(p) : p \in 1..n}] :
              /\ \A p \in 1..n : sc[p] \in PoolScenarios(p)
              /\ pools = [p \in 1..n |-> Topology(((p - 1) % 3) + 1, p)]
              /\ iostat = [p \in 1..n |-> sc[p].iostat]
              /\ zlist = [p \in 1..n |-> sc[p].zlist]

SpecPools == InitPools /\ [][Next]_vars

----------------------------------------------------------------------------
(* register_health alone, on the labels and healths the handler can pass it *)

HealthLabelInputs ==
    {PoolLabels(Topology(1, p)) : p \in 1..MaxPools}
        \cup {DiskLabels(PoolLabels(Topology(1, p)), ParseRow(row), vdev) :
                 p \in 1..MaxPools, row \in {SdaRow, SdbRow, SdRow},
                 vdev \in {None, Some(ParseRow(VdevRow(0))), Some(ParseRow(VdevRow(1)))}}

InitHealth ==
    /\ pools = <<>>
    /\ iostat = <<>>
    /\ zlist = <<>>
    /\ pc = "register_health"
    /\ poolIdx = 1
    /\ registries = <<>>
    /\ pool_reg = NoReg
    /\ devices = <<>>
    /\ devIdx = 1
    /\ last_vdev = None
    /\ last_vdev_data = None
    /\ resp = <<>>
    /\ healthIn \in {Some([labels |-> l, health |-> h]) :
                        l \in HealthLabelInputs, h \in Health}

\* a call of register_health and the Vec it returns
RegisterHealthCall ==
    /\ pc = "register_health"
    /\ registries' = register_health(healthIn.val.labels, healthIn.val.health)
    /\ pc' = "returned"
    /\ UNCHANGED <<pools, iostat, zlist, poolIdx, pool_reg, devices, devIdx,
                   last_vdev, last_vdev_data, resp, healthIn>>

NextHealth == RegisterHealthCall

SpecHealth == InitHealth /\ [][NextHealth]_vars


----------------------------------------------------------------------------
(* What the properties below speak of *)

\* the pool whose rows `devices` holds: the one in the loop, or the one whose
\* pass has just ended
LoopPool == IF pc \in {"pool", "done"} THEN poolIdx - 1 ELSE poolIdx

\* `devices` is the parsed output of LoopPool
RowsParsed ==
    /\ LoopPool \in DOMAIN pools
    /\ \/ pc \in {"zpool_list", "devices", "pool", "done"}
       \/ pc = "panicked" /\ iostat[LoopPool].status = "ok"
                          /\ ~ParsePanics(Stdout(iostat[LoopPool]))

\* the pool registry of LoopPool has been pushed
PoolPushed == LoopPool \in DOMAIN pools /\ pc \in {"devices", "pool", "done"}

\* the row pass of LoopPool has ended
PassEnded == LoopPool \in DOMAIN pools /\ pc \in {"pool", "done"}

\* rows the loop has handled
Processed == IF pc = "devices" THEN devIdx - 1
             ELSE IF PassEnded THEN Len(devices) ELSE 0

RowIsPool(d) == d.name = pools[LoopPool].name
\* a pool/vdev-level row (allocated # 0) other than the pool row
RowIsHeader(d) == ~RowIsPool(d) /\ d.io_stats.capacity.some
\* a disk-level row (allocated = 0) other than the pool row
RowIsDisk(d) == ~RowIsPool(d) /\ ~d.io_stats.capacity.some

\* the registries built for pool p
BuiltOf(p) == SelectSeq(registries, LAMBDA r : r.labels.pool = pools[p].name)

IsHealthGroup(r) == "state" \in DOMAIN r.labels
IsDiskEntity(r) == r.labels.device_type = "disk" /\ ~IsHealthGroup(r)
IsVdevEntity(r) == r.labels.device_type = "vdev" /\ ~IsHealthGroup(r)
IsPoolEntity(r) == r.labels.device_type = "pool" /\ ~IsHealthGroup(r)

MaxOf(S) == CHOOSE i \in S : \A j \in S : j <= i
MinOf(S) == CHOOSE i \in S : \A j \in S : i <= j

\* the index of the last header row before row i, 0 when there is none
HeaderBefore(i) ==
    LET hs == {j \in 1..(i - 1) : RowIsHeader(devices[j])}
    IN  IF hs = {} THEN 0 ELSE MaxOf(hs)

\* the indices of the handled disk rows, in order
DiskRowsHandled ==
    SelectSeq([i \in 1..Processed |-> i], LAMBDA i : RowIsDisk(devices[i]))

\* the I/O counters of a row, as a group carries them
IoMetrics(d) == collect_metrics(d.io_stats, NoReg).metrics

Carries(r, metrics) ==
    \A n \in DOMAIN metrics : n \in DOMAIN r.metrics /\ r.metrics[n] = metrics[n]

----------------------------------------------------------------------------
(* C1 *)

\* C1: every handled disk row is emitted as a Disk entity, in row order, whose
\* vdev label is the name of the last header row (pool/vdev-level, not the pool
\* row) before it, and which has no vdev label when no header row precedes it.
C1_DiskParentIsPrecedingHeader ==
    RowsParsed =>
        LET idx == DiskRowsHandled
            regs == SelectSeq(BuiltOf(LoopPool), IsDiskEntity)
        IN  /\ Len(regs) = Len(idx)
            /\ \A k \in DOMAIN idx :
                 LET h == HeaderBefore(idx[k])
                 IN  /\ regs[k].labels.device_name = devices[idx[k]].name
                     /\ h = 0 => "vdev" \notin DOMAIN regs[k].labels
                     /\ h # 0 => /\ "vdev" \in DOMAIN regs[k].labels
                                 /\ regs[k].labels.vdev = devices[h].name

\* a disk row handled right after the pool row, itself right after a header
C1_Witness ==
    /\ pc = "devices"
    /\ devIdx > 3
    /\ RowIsDisk(devices[devIdx - 1])
    /\ RowIsPool(devices[devIdx - 2])
    /\ RowIsHeader(devices[devIdx - 3])
    /\ registries[Len(registries)].labels.vdev = devices[devIdx - 3].name

----------------------------------------------------------------------------
(* C2 *)

\* C2: when a header row arrives while an earlier vdev is open and a Vdev entity
\* is emitted, that entity has the device_name and the I/O metrics of the
\* earlier header row.
C2_HeaderEmitsEarlierVdev ==
    [][(/\ InLoop
        /\ RowIsHeader(devices[devIdx])
        /\ last_vdev.some
        /\ Len(registries') = Len(registries) + 1)
       => LET e == registries'[Len(registries')]
          IN  /\ IsVdevEntity(e)
              /\ e.labels.device_name = last_vdev.val.name
              /\ Carries(e, IoMetrics(last_vdev.val))]_vars

----------------------------------------------------------------------------
(* C3 *)

\* C3: when the pass over a pool's rows has ended, every header row has exactly
\* one Vdev entity of its name, and every Vdev entity has the name of a header
\* row.
C3_OneVdevEntityPerHeader ==
    PassEnded =>
        LET regs == SelectSeq(BuiltOf(LoopPool), IsVdevEntity)
        IN  /\ \A i \in DOMAIN devices :
                 RowIsHeader(devices[i]) =>
                     Cardinality({k \in DOMAIN regs :
                                     regs[k].labels.device_name = devices[i].name})
                       = Cardinality({j \in DOMAIN devices :
                                         /\ RowIsHeader(devices[j])
                                         /\ devices[j].name = devices[i].name})
            /\ \A k \in DOMAIN regs :
                 \E i \in DOMAIN devices :
                     /\ RowIsHeader(devices[i])
                     /\ devices[i].name = regs[k].labels.device_name

----------------------------------------------------------------------------
(* C4 *)

\* the Pool entity of LoopPool
PoolEntity == SelectSeq(BuiltOf(LoopPool), IsPoolEntity)[1]

\* a step of the loop or of its end that emits a Vdev entity
EmitsVdev ==
    /\ pc = "devices"
    /\ Len(registries') = Len(registries) + 1
    /\ IsVdevEntity(registries'[Len(registries')])

\* C4 as stated: the disk_count of the Pool entity is the number of disk rows of
\* the stream, and that of the Vdev entity emitted after the loop is the number
\* of disk rows after its header.
C4_DiskCountIsRowCount ==
    PassEnded =>
        /\ PoolEntity.metrics.disk_count
             = Cardinality({i \in DOMAIN devices : RowIsDisk(devices[i])})
        /\ (last_vdev.some /\ last_vdev_data.some) =>
             registries[Len(registries)].metrics.disk_count
               = Len(devices) - HeaderBefore(Len(devices) + 1)

\* C4 as amended: the disk_count of the Pool entity is the number of disks the
\* topology lists over all vdevs of the pool, whatever the rows are, and the
\* disk_count of a Vdev entity is the number of disks the topology lists for the
\* vdev held in last_vdev_data when the entity is emitted.
C4_DiskCountFromTopology ==
    /\ [](PoolPushed =>
            PoolEntity.metrics.disk_count
              = Cardinality(UNION {{<<v, k>> : k \in DOMAIN pools[LoopPool].vdevs[v].disks} :
                                      v \in DOMAIN pools[LoopPool].vdevs}))
    /\ [][EmitsVdev =>
            /\ last_vdev_data.some
            /\ registries'[Len(registries')].metrics.disk_count
                 = Cardinality(DOMAIN last_vdev_data.val.disks)]_vars

\* one disk row under a header, a topology vdev of three disks: both entities
\* carry 3
C4_Witness ==
    /\ PassEnded
    /\ Cardinality({i \in DOMAIN devices : RowIsDisk(devices[i])}) = 1
    /\ PoolEntity.metrics.disk_count = 3
    /\ IsVdevEntity(registries[Len(registries)])
    /\ registries[Len(registries)].metrics.disk_count = 3

----------------------------------------------------------------------------
(* C9 *)

\* the disks of the topology, vdev after vdev, each vdev's disks in its order
RECURSIVE FlatDisks(_)
FlatDisks(vdevs) ==
    IF Len(vdevs) = 0 THEN <<>> ELSE vdevs[1].disks \o FlatDisks(Tail(vdevs))

\* the indices of the topology disks whose path contains the name
Candidates(name) ==
    LET flat == FlatDisks(pools[LoopPool].vdevs)
    IN  {i \in DOMAIN flat : Contains(flat[i].path, name)}

StateLabels ==
    <<"online", "degraded", "faulted", "offline", "available", "unavailable", "removed">>

\* the state label that names a health
StateLabelOf(health) ==
    CASE health = "Online" -> "online"
      [] health = "Degraded" -> "degraded"
      [] health = "Faulted" -> "faulted"
      [] health = "Offline" -> "offline"
      [] health = "Available" -> "available"
      [] health = "Unavailable" -> "unavailable"
      [] health = "Removed" -> "removed"

\* the seven groups of an entity of these labels and this health
OneHotGroups(labels, health) ==
    [k \in 1..7 |->
        [labels |-> ("state" :> StateLabels[k]) @@ ("field_type" :> "enum") @@ labels,
         metrics |-> ("health" :> IF StateLabels[k] = StateLabelOf(health) THEN 1 ELSE 0)]]

ErrorMetricNames == {"read_errors", "write_errors", "checksum_errors"}

\* C9: right after a disk row is handled, the last registry is its Disk entity
\* with the row's I/O metrics; when some topology disk path contains the row
\* name, the entity carries the error statistics of the first such disk of the
\* flattened topology and the seven groups before it are the health groups of
\* that disk's health; when none does, the entity has no error metric and no
\* health group precedes it.
C9_FirstSubstringMatch ==
    (pc = "devices" /\ devIdx > 1 /\ RowIsDisk(devices[devIdx - 1])) =>
        LET d == devices[devIdx - 1]
            n == Len(registries)
            e == registries[n]
            flat == FlatDisks(pools[LoopPool].vdevs)
            hits == Candidates(d.name)
        IN  /\ IsDiskEntity(e)
            /\ e.labels.device_name = d.name
            /\ Carries(e, IoMetrics(d))
            /\ hits = {} =>
                 /\ DOMAIN e.metrics = DOMAIN IoMetrics(d)
                 /\ ~IsHealthGroup(registries[n - 1])
            /\ hits # {} =>
                 LET t == flat[MinOf(hits)]
                 IN  /\ DOMAIN e.metrics = DOMAIN IoMetrics(d) \cup ErrorMetricNames
                     /\ e.metrics.read_errors = t.error_statistics.read
                     /\ e.metrics.write_errors = t.error_statistics.write
                     /\ e.metrics.checksum_errors = t.error_statistics.checksum
                     /\ n >= 8
                     /\ SubSeq(registries, n - 7, n - 1) = OneHotGroups(e.labels, t.health)

\* a disk row whose name several topology disks contain, with different healths
C9_Witness ==
    /\ pc = "devices"
    /\ devIdx > 1
    /\ RowIsDisk(devices[devIdx - 1])
    /\ LET flat == FlatDisks(pools[LoopPool].vdevs)
           hits == Candidates(devices[devIdx - 1].name)
       IN  /\ Cardinality(hits) > 1
           /\ flat[MinOf(hits)].health # flat[MaxOf(hits)].health
           /\ registries[Len(registries)].metrics.read_errors
                = flat[MinOf(hits)].error_statistics.read

----------------------------------------------------------------------------
(* C10 *)

\* the index of the last handled disk row, among the first n rows, whose name
\* some topology disk path contains; 0 when there is none
MatchedDiskBefore(n) ==
    LET ms == {i \in 1..n : RowIsDisk(devices[i]) /\ Candidates(devices[i].name) # {}}
    IN  IF ms = {} THEN 0 ELSE MaxOf(ms)

\* C10: a Vdev entity emitted after n rows takes its error statistics and disk
\* count from the topology vdev of the last matched disk row m among them, and
\* m lies under the entity's own header: the last header row before m has the
\* entity's device_name, and no header row lies between m and the emission.
C10_VdevStatsFromOwnDisks ==
    [][EmitsVdev =>
         LET e == registries'[Len(registries')]
             n == devIdx - 1
             m == MatchedDiskBefore(n)
             h == HeaderBefore(m)
         IN  /\ m # 0
             /\ \E v \in DOMAIN pools[LoopPool].vdevs :
                  LET pv == pools[LoopPool].vdevs[v]
                  IN  /\ \E k \in DOMAIN pv.disks : Contains(pv.disks[k].path, devices[m].name)
                      /\ \A u \in 1..(v - 1) :
                           \A k \in DOMAIN pools[LoopPool].vdevs[u].disks :
                             ~Contains(pools[LoopPool].vdevs[u].disks[k].path,
                                       devices[m].name)
                      /\ e.metrics.read_errors = pv.error_statistics.read
                      /\ e.metrics.write_errors = pv.error_statistics.write
                      /\ e.metrics.checksum_errors = pv.error_statistics.checksum
                      /\ e.metrics.disk_count = Len(pv.disks)
             /\ h # 0
             /\ devices[h].name = e.labels.device_name
             /\ HeaderBefore(n + 1) = h]_vars

----------------------------------------------------------------------------
(* C7 *)

\* a printed line of exactly 7 fields, none empty
WellFormed(row) == Len(row) = 7 /\ \A f \in DOMAIN row : Len(row[f]) > 0

\* the printed lines of LoopPool without the malformed ones
KeptRows == SelectSeq(iostat[LoopPool].rows, WellFormed)

AllNumeric(rows) ==
    \A r \in DOMAIN rows : \A f \in 2..7 : ParseU64(rows[r][f]).ok

\* C7: malformed lines do not fail the scrape (with every well-formed row
\* numeric and zpool list sound, the handler does not panic), the parsed rows
\* are those of the same output with the malformed lines removed, one per
\* well-formed line and in their order, and the Disk entities are those of the
\* well-formed disk rows, in order, each under the last well-formed header row
\* before it.
C7_MalformedLinesDropped ==
    (LoopPool \in DOMAIN pools /\ iostat[LoopPool].status = "ok") =>
        /\ (AllNumeric(KeptRows) /\ ~ZlistPanicsOn(zlist[LoopPool])) => pc # "panicked"
        /\ RowsParsed =>
             /\ devices = parse_from_stdout(Stdout(IostatOk(KeptRows)))
             /\ Len(devices) = Len(KeptRows)
             /\ \A k \in DOMAIN KeptRows :
                  /\ devices[k].name = KeptRows[k][1]
                  /\ devices[k].io_stats.capacity.some
                       <=> \E c \in DOMAIN KeptRows[k][2] : KeptRows[k][2][c] # "0"
        /\ PassEnded =>
             LET kept == SelectSeq(KeptRows, LAMBDA r :
                             /\ r[1] # pools[LoopPool].name
                             /\ \A c \in DOMAIN r[2] : r[2][c] = "0")
                 regs == SelectSeq(BuiltOf(LoopPool), IsDiskEntity)
             IN  /\ Len(regs) = Len(kept)
                 /\ \A k \in DOMAIN kept : regs[k].labels.device_name = kept[k][1]
                 /\ C1_DiskParentIsPrecedingHeader

\* a 6-field line between a header and its disk: the disk is under the header
C7_Witness ==
    /\ pc = "done"
    /\ iostat[1].rows = <<VdevRow(0), SixFieldRow, SdaRow>>
    /\ Len(devices) = 2
    /\ \E k \in DOMAIN registries :
         /\ IsDiskEntity(registries[k])
         /\ registries[k].labels.device_name = sda
         /\ registries[k].labels.vdev = Mirror(0)

----------------------------------------------------------------------------
(* C6 *)

\* C6: register_health returns seven groups, one per state label in the order
\* online .. removed, each with the labels passed plus field_type=enum and its
\* state, each with the one counter health; exactly one has value 1, the one
\* whose state label names the health, and the six others have value 0.
C6_HealthOneHot ==
    pc = "returned" =>
        LET l == healthIn.val.labels
            h == healthIn.val.health
            g == registries
        IN  /\ Len(g) = 7
            /\ \A k \in 1..7 :
                 /\ DOMAIN g[k].labels = DOMAIN l \cup {"state", "field_type"}
                 /\ g[k].labels.state = StateLabels[k]
                 /\ g[k].labels.field_type = "enum"
                 /\ \A key \in DOMAIN l : g[k].labels[key] = l[key]
                 /\ DOMAIN g[k].metrics = {"health"}
                 /\ g[k].metrics.health \in {0, 1}
                 /\ g[k].metrics.health = 1 <=> StateLabels[k] = StateLabelOf(h)
            /\ Cardinality({k \in 1..7 : g[k].metrics.health = 1}) = 1
            /\ Cardinality({k \in 1..7 : g[k].metrics.health = 0}) = 6

\* the groups of an unavailable disk under a vdev
C6_Witness ==
    /\ pc = "returned"
    /\ healthIn.val.health = "Unavailable"
    /\ healthIn.val.labels.device_type = "disk"
    /\ "vdev" \in DOMAIN healthIn.val.labels
    /\ registries[6].labels.state = "unavailable"
    /\ registries[6].metrics.health = 1

----------------------------------------------------------------------------
(* C5 and C8 *)

\* the groups of the response that carry pool p's name
RespOf(p) == SelectSeq(resp, LAMBDA g : \E smp \in g : smp.labels.pool = pools[p].name)

IostatFailure(p) == iostat[p].status # "ok"
NumericFailure(p) == iostat[p].status = "ok" /\ ParsePanics(Stdout(iostat[p]))
ZlistFailure(p) ==
    /\ iostat[p].status = "ok"
    /\ ~ParsePanics(Stdout(iostat[p]))
    /\ \E r \in DOMAIN iostat[p].rows :
         WellFormed(iostat[p].rows[r]) /\ iostat[p].rows[r][1] = pools[p].name
    /\ ZlistPanicsOn(zlist[p])

\* the handler has returned or panicked
Finished == pc \in {"done", "panicked"}

\* a failure occurred while pool p was being processed
FailedDuring(p) == pc = "panicked" /\ poolIdx = p

\* the response holds the complete entity set of pool p: every group built for
\* it, among them its seven health groups, its Pool entity and one Disk entity
\* per well-formed disk row of its output
Complete(p) ==
    LET built == BuiltOf(p)
        rows == SelectSeq(iostat[p].rows, WellFormed)
    IN  /\ RespOf(p) = [k \in DOMAIN built |-> encode_metrics(built[k])]
        /\ Len(SelectSeq(built, IsPoolEntity)) = 1
        /\ Len(SelectSeq(built, LAMBDA r :
                   IsHealthGroup(r) /\ r.labels.device_type = "pool")) = 7
        /\ Len(SelectSeq(built, IsDiskEntity))
             = Len(SelectSeq(rows, LAMBDA r :
                       /\ r[1] # pools[p].name
                       /\ \A c \in DOMAIN r[2] : r[2][c] = "0"))

\* C5 as stated, for the pools the handler came to process: nothing of the pool
\* appears when a command or a numeric field failed while that pool was
\* processed, and the pool's complete entity set appears otherwise.
C5_PerPoolAllOrNothing ==
    Finished =>
        \A p \in DOMAIN pools :
            p <= poolIdx =>
                IF FailedDuring(p) THEN RespOf(p) = <<>> ELSE Complete(p)

\* C5 as amended: the scrape is all-or-nothing.  The handler panics exactly on a
\* failure of zpool iostat, of a numeric field or of zpool list in the pool being
\* processed; then the response holds no entity of any pool; when it returns,
\* no pool failed and the response holds the complete entity set of every pool.
C5_ScrapeAllOrNothing ==
    /\ pc = "panicked" =>
         /\ IostatFailure(poolIdx) \/ NumericFailure(poolIdx) \/ ZlistFailure(poolIdx)
         /\ resp = <<>>
    /\ pc = "done" =>
         /\ \A p \in DOMAIN pools :
              /\ ~(IostatFailure(p) \/ NumericFailure(p) \/ ZlistFailure(p))
              /\ Complete(p)
         /\ Len(resp) = Len(registries)
    /\ (\A p \in DOMAIN pools : ~(IostatFailure(p) \/ NumericFailure(p) \/ ZlistFailure(p)))
         => pc # "panicked"

\* zpool iostat fails in the second pool after groups of both pools were built
C5_Witness ==
    /\ pc = "panicked"
    /\ poolIdx = 2
    /\ IostatFailure(2)
    /\ Len(BuiltOf(1)) > 7
    /\ Len(BuiltOf(2)) = 7
    /\ resp = <<>>

\* C8 as stated: after a numeric parse failure in one pool, the entities of
\* every other pool are in the scrape output.
C8_OtherPoolsStillProduced ==
    (pc = "panicked" /\ NumericFailure(poolIdx)) =>
        \A p \in (DOMAIN pools) \ {poolIdx} : RespOf(p) # <<>>

\* C8 as amended: a numeric parse failure in the rows of one pool ends the whole
\* scrape.  The handler never gets past that pool and never responds: nothing
\* is built for the pools after it and the response holds no entity of any
\* pool, those processed before it included.
C8_NumericFailureEndsScrape ==
    \A p \in DOMAIN pools :
        NumericFailure(p) =>
            /\ poolIdx <= p
            /\ poolIdx = p => pc \in {"pool", "iostat", "panicked"}
            /\ pc # "done"
            /\ resp = <<>>
            /\ \A q \in DOMAIN pools : q > p => BuiltOf(q) = <<>>

\* the second of three pools has a non-numeric field; the first was processed
\* in full and the third is sound
C8_Witness ==
    /\ pc = "panicked"
    /\ Len(pools) = 3
    /\ poolIdx = 2
    /\ NumericFailure(2)
    /\ ~(IostatFailure(1) \/ NumericFailure(1) \/ ZlistFailure(1))
    /\ ~(IostatFailure(3) \/ NumericFailure(3) \/ ZlistFailure(3))
    /\ \E k \in DOMAIN BuiltOf(1) : IsVdevEntity(BuiltOf(1)[k])
    /\ resp = <<>>

====
